---- MODULE Spec2Model ----
(***************************************************************************)
(* A model of the static site generator in src/main.go: the frontmatter    *)
(* parser, the notes tree builder and the build routine main().            *)
(* Strings are sequences of one-character strings, so that prefix, suffix, *)
(* split and trim are computed as the Go library computes them.            *)
(***************************************************************************)
EXTENDS Integers, Sequences, FiniteSets, TLC

VARIABLES
  fmContent,   \* parseFrontmatter: the argument content
  fmResult,    \* parseFrontmatter: the returned (meta, body, err)
  fmPc,        \* parseFrontmatter: "call" before, "returned" after the call
  fmAgain,     \* parseFrontmatter: what a second call, on the returned body, returns
  tagWords,    \* the tags a tag string spells
  tagStr,      \* the tag string: the value of meta["tags"]
  tagOut,      \* what each of the three tag parsers of the build makes of it
  tagPc,       \* the tag parsers: "call" before, "parsed" after
  hLevel,      \* renderHeading: n.Level of the heading node
  hId,         \* renderHeading: the id attribute of the node, if it has one
  hOut,        \* renderHeading: what has been written to w
  hPc,         \* renderHeading: "enter", "children", "leave", "done"
  notes,       \* the files below notes/: records [path, data]
  cfgBaseURL,  \* cfg.BaseURL
  notesTree,   \* the result of buildNotesTree("notes", cfg.BaseURL)
  treePc,      \* buildNotesTree: "call" before, "returned" after the call
  contentDir,  \* the files of content/: records [path, data]
  public,      \* the files of public/: records [kind, name]
  pc,          \* main: the statement that runs next
  homeContent, \* cfg.HomeContent
  posts,       \* main: posts
  walkTodo,    \* the files the walk of main.go:345 has yet to visit
  noteErr,     \* the first error of os.Create or ExecuteTemplate in that walk
  pagePosts,   \* the Posts handed to post.html for the pages of the notes
  indexPosts,  \* the Posts handed to the template index.html
  tagsMap,     \* main: tagsMap
  tagPages,    \* the Posts handed to tag.html, for each tag page written
  allSearchItems, \* main: allSearchItems
  allNotes     \* main: allNotes

vars == <<fmContent, fmResult, fmPc, fmAgain, tagWords, tagStr, tagOut, tagPc,
          hLevel, hId, hOut, hPc, notes, cfgBaseURL, notesTree, treePc,
          contentDir, public, pc, homeContent, posts, walkTodo, noteErr,
          pagePosts, indexPosts, tagsMap, tagPages, allSearchItems, allNotes>>

mainVars == <<contentDir, public, pc, homeContent, posts, walkTodo, noteErr,
              pagePosts, indexPosts, tagsMap, tagPages, allSearchItems, allNotes>>

fmVars == <<fmContent, fmResult, fmPc, fmAgain>>
tagVars == <<tagWords, tagStr, tagOut, tagPc>>
headVars == <<hLevel, hId, hOut, hPc>>
pureVars == <<fmVars, tagVars, headVars>>
treeVars == <<notes, cfgBaseURL, notesTree, treePc>>

NL == "\n"

(* ----------------------------- bounds ---------------------------------- *)
MaxSegs == 4
MaxTreeDepth == 1
MaxTreeFiles == 2
MaxNotes == 2
MaxPosts == 1
MaxTagFailures == 1
MaxTags == 2

(* ------------------------- string library ------------------------------ *)
\* bytes.HasPrefix / strings.HasPrefix
HasPrefix(s, p) == Len(s) >= Len(p) /\ SubSeq(s, 1, Len(p)) = p

\* strings.HasSuffix
HasSuffix(s, p) == Len(s) >= Len(p) /\ SubSeq(s, Len(s) - Len(p) + 1, Len(s)) = p

\* strings.TrimSuffix: removes ONE trailing occurrence of suf
TrimSuffix(s, suf) == IF HasSuffix(s, suf) THEN SubSeq(s, 1, Len(s) - Len(suf)) ELSE s

\* strings.Index / bytes.Index: 0-based index of the first occurrence, -1 if none
Index(s, sep) ==
  LET hits == {i \in 0..(Len(s) - Len(sep)) : SubSeq(s, i + 1, i + Len(sep)) = sep}
  IN IF hits = {} THEN -1 ELSE CHOOSE i \in hits : \A j \in hits : i <= j

\* bytes.SplitN(s, sep, n) for n > 0 and a non-empty sep
RECURSIVE SplitN(_, _, _)
SplitN(s, sep, n) ==
  LET idx == Index(s, sep)
  IN IF n <= 1 \/ idx < 0 THEN <<s>>
     ELSE <<SubSeq(s, 1, idx)>> \o SplitN(SubSeq(s, idx + Len(sep) + 1, Len(s)), sep, n - 1)

\* unicode.IsSpace restricted to the ASCII white space
Space == {" ", "\t", NL, "\r", "\f"}

RECURSIVE TrimLeft(_)
TrimLeft(s) == IF s # <<>> /\ Head(s) \in Space THEN TrimLeft(Tail(s)) ELSE s

RECURSIVE TrimRight(_)
TrimRight(s) ==
  IF s # <<>> /\ s[Len(s)] \in Space THEN TrimRight(SubSeq(s, 1, Len(s) - 1)) ELSE s

\* strings.TrimSpace
TrimSpace(s) == TrimRight(TrimLeft(s))

\* bufio.ScanLines: dropCR
DropCR(s) == IF s # <<>> /\ s[Len(s)] = "\r" THEN SubSeq(s, 1, Len(s) - 1) ELSE s

\* bufio.Scanner with the default split function ScanLines: the tokens of
\* data.  A final unterminated line is a token when it is not empty.  The
\* scanner stops at a line longer than its 64 KiB buffer; the lines of the
\* model stay far below that length.
RECURSIVE ScanLines(_)
ScanLines(data) ==
  LET i == Index(data, <<NL>>)
  IN IF data = <<>> THEN <<>>
     ELSE IF i < 0 THEN <<DropCR(data)>>
     ELSE <<DropCR(SubSeq(data, 1, i))>> \o ScanLines(SubSeq(data, i + 2, Len(data)))

(* ------------------------- parseFrontmatter ---------------------------- *)
Delim == <<"-", "-", "-", NL>>

\* a Go map[string]string; a nil map reads like the empty map
EmptyMeta == [k \in {} |-> <<>>]

\* meta[key], "" when the key is absent
MetaGet(meta, key) == IF key \in DOMAIN meta THEN meta[key] ELSE <<>>

\* meta[key] = val
MetaPut(meta, key, val) ==
  [k \in (DOMAIN meta) \cup {key} |-> IF k = key THEN val ELSE meta[k]]

\* ScanLine with the test idx >= 0 in place of idx > 0
ScanLine_AnyColon(meta, line) ==
  LET idx == Index(line, <<":">>)
  IN IF idx >= 0
     THEN MetaPut(meta, TrimSpace(SubSeq(line, 1, idx)),
                        TrimSpace(SubSeq(line, idx + 2, Len(line))))
     ELSE meta

\* the body of the scanner loop, main.go:124-129
ScanLine(meta, line) ==
  LET idx == Index(line, <<":">>)
  IN IF idx > 0
     THEN MetaPut(meta, TrimSpace(SubSeq(line, 1, idx)),
                        TrimSpace(SubSeq(line, idx + 2, Len(line))))
     ELSE meta

RECURSIVE ScanMeta(_, _)
ScanMeta(meta, lines) ==
  IF lines = <<>> THEN meta ELSE ScanMeta(ScanLine(meta, Head(lines)), Tail(lines))

\* parseFrontmatter without the early return for an input that lacks the prefix
parseFrontmatter_NoEarlyReturn(content) ==
  LET parts == SplitN(content, Delim, 3)
  IN IF Len(parts) < 3
     THEN [meta |-> EmptyMeta, body |-> content, err |-> TRUE]
     ELSE [meta |-> ScanMeta(EmptyMeta, ScanLines(parts[2])),
           body |-> parts[3], err |-> FALSE]

\* parseFrontmatter testing the prefix "---" without the newline
parseFrontmatter_DashesOnly(content) ==
  IF ~HasPrefix(content, <<"-", "-", "-">>)
  THEN [meta |-> EmptyMeta, body |-> content, err |-> FALSE]
  ELSE LET parts == SplitN(content, Delim, 3)
       IN IF Len(parts) < 3
          THEN [meta |-> EmptyMeta, body |-> content, err |-> TRUE]
          ELSE [meta |-> ScanMeta(EmptyMeta, ScanLines(parts[2])),
                body |-> parts[3], err |-> FALSE]

parseFrontmatter(content) ==
  IF ~HasPrefix(content, Delim)
  THEN [meta |-> EmptyMeta, body |-> content, err |-> FALSE]
  ELSE LET parts == SplitN(content, Delim, 3)
       IN IF Len(parts) < 3
          THEN [meta |-> EmptyMeta, body |-> content, err |-> TRUE]
          ELSE [meta |-> ScanMeta(EmptyMeta, ScanLines(parts[2])),
                body |-> parts[3], err |-> FALSE]

(* --------------------------- file system ------------------------------- *)
\* the characters of the model in byte order
ByteOrder ==
  <<"\t", NL, "\f", "\r", " ", "#", "'", ",", "-", ".", "/",
    "0", "1", "2", "3", "4", "5", "6", "7", "8", "9", ":",
    "A", "D", "F", "G", "J", "M", "N", "O", "S", "T", "W", "[", "]", "_",
    "a", "b", "c", "d", "e", "f", "g", "h", "i", "j", "k", "l", "m", "n",
    "o", "p", "q", "r", "s", "t", "u", "v", "w", "x", "y", "z">>

CharCode(c) == CHOOSE i \in 1..Len(ByteOrder) : ByteOrder[i] = c

\* a < b for strings, byte by byte, as sort.Strings orders directory names
RECURSIVE StrLess(_, _)
StrLess(a, b) ==
  IF b = <<>> THEN FALSE
  ELSE IF a = <<>> THEN TRUE
  ELSE IF Head(a) = Head(b) THEN StrLess(Tail(a), Tail(b))
  ELSE CharCode(Head(a)) < CharCode(Head(b))

\* the names of a set in ascending order
RECURSIVE SortNames(_)
SortNames(S) ==
  IF S = {} THEN <<>>
  ELSE LET m == CHOOSE x \in S : \A y \in S \ {x} : StrLess(x, y)
       IN <<m>> \o SortNames(S \ {m})

\* p is a proper prefix of the path q
UnderDir(p, q) == Len(q) > Len(p) /\ SubSeq(q, 1, Len(p)) = p

\* the subsets of S of at most n elements
SmallSubsets(S, n) == {{}} \cup {{f[i] : i \in 1..n} : f \in [1..n -> S]}

\* os.ReadDir(dir): the names of the entries of dir, sorted by name
ReadDir(fs, dir) ==
  SortNames({f.path[Len(dir) + 1] : f \in {g \in fs : UnderDir(dir, g.path)}})

\* entry.IsDir() / info.IsDir()
IsDir(fs, p) == \E f \in fs : UnderDir(p, f.path)

\* os.ReadFile(path)
ReadFile(fs, p) == (CHOOSE f \in fs : f.path = p).data

\* filepath.Rel("notes", path): the components below notes/ joined by '/'
RECURSIVE RelPath(_)
RelPath(p) ==
  IF p = <<>> THEN <<>>
  ELSE IF Len(p) = 1 THEN p[1]
  ELSE p[1] \o <<"/">> \o RelPath(Tail(p))

(* --------------------------- buildNotesTree ---------------------------- *)
DotMd == <<".", "m", "d">>
NotesSlash == <<"n", "o", "t", "e", "s", "/">>
NameImages == <<"i", "m", "a", "g", "e", "s">>
NameIndexMd == <<"_", "i", "n", "d", "e", "x", ".", "m", "d">>
KeyTitle == <<"t", "i", "t", "l", "e">>

\* the skip test without the images folder
Skipped_NoImages(name) ==
  HasPrefix(name, <<".">>) \/ name = NameIndexMd

\* main.go:149: hidden files, the images folder and the special index file
Skipped(name) ==
  HasPrefix(name, <<".">>) \/ name = NameImages \/ name = NameIndexMd

\* main.go:164-184: the node of a markdown file
FileNode(fs, path, name, baseUrl) ==
  LET r == parseFrontmatter(ReadFile(fs, path))
      title == IF ~r.err /\ MetaGet(r.meta, KeyTitle) # <<>>
               THEN MetaGet(r.meta, KeyTitle) ELSE name
      urlPath == TrimSuffix(RelPath(path), DotMd)
  IN [Name |-> name, Title |-> title, URL |-> baseUrl \o NotesSlash \o urlPath,
      IsDir |-> FALSE, Children |-> <<>>]

RECURSIVE buildNotesTree(_, _, _)
RECURSIVE TreeEntries(_, _, _, _)

\* the loop of buildNotesTree over the entries that remain
TreeEntries(fs, root, names, baseUrl) ==
  IF names = <<>> THEN <<>>
  ELSE LET name == Head(names)
           path == Append(root, name)
           rest == TreeEntries(fs, root, Tail(names), baseUrl)
       IN IF Skipped(name) THEN rest
          ELSE IF IsDir(fs, path)
          THEN <<[Name |-> name, Title |-> <<>>, URL |-> <<>>, IsDir |-> TRUE,
                  Children |-> buildNotesTree(fs, path, baseUrl)]>> \o rest
          ELSE IF HasSuffix(name, DotMd)
          THEN <<FileNode(fs, path, name, baseUrl)>> \o rest
          ELSE rest

\* buildNotesTree(root, baseUrl); root is given by its components below notes/
buildNotesTree(fs, root, baseUrl) == TreeEntries(fs, root, ReadDir(fs, root), baseUrl)

(* --------------------------- renderHeading ----------------------------- *)
\* one write to w: what is written, and the text written where it varies
Chunk(w, arg) == [w |-> w, arg |-> arg]

\* "0123456"[n.Level]
LevelChar(level) == <<"0", "1", "2", "3", "4", "5", "6">>[level + 1]

\* main.go:48-53: the opening tag, with the attributes of the node if it has any
HeadingOpen(level, id) ==
  <<Chunk("<h", <<>>), Chunk("level", <<LevelChar(level)>>)>>
    \o (IF id.has THEN <<Chunk("attributes", id.val)>> ELSE <<>>)
    \o <<Chunk(">", <<>>)>>

\* the copy button written at every level
CopyButton_AnyLevel(level, id) ==
  IF id.has /\ id.type \in {"bytes", "string"} /\ id.val # <<>>
  THEN <<Chunk("button", <<"#">> \o id.val)>>
  ELSE <<>>

\* main.go:56-71: the copy button, for H2 and H3 with a non-empty id held as
\* []byte or string
CopyButton(level, id) ==
  IF id.has /\ id.type \in {"bytes", "string"} /\ id.val # <<>> /\ level \in {2, 3}
  THEN <<Chunk("button", <<"#">> \o id.val)>>
  ELSE <<>>

\* main.go:73-75: the closing tag
HeadingClose(level) ==
  <<Chunk("</h", <<>>), Chunk("level", <<LevelChar(level)>>), Chunk(">", <<>>)>>

(* ------------------------------- dates --------------------------------- *)
Digits == {"0", "1", "2", "3", "4", "5", "6", "7", "8", "9"}
DigitVal(c) == CharCode(c) - CharCode("0")
DigitChar(n) == ByteOrder[CharCode("0") + n]

IsLeap(y) == (y % 4 = 0 /\ y % 100 # 0) \/ y % 400 = 0
DaysIn(y, m) ==
  IF m = 2 THEN (IF IsLeap(y) THEN 29 ELSE 28)
  ELSE IF m \in {4, 6, 9, 11} THEN 30 ELSE 31

\* the zero time.Time: January 1 of year 1
ZeroDate == [y |-> 1, m |-> 1, d |-> 1]

\* time.Parse("2006-01-02", s): the date and whether the parse succeeded;
\* on failure the returned time is the zero time
ParseDate(s) ==
  LET shaped == /\ Len(s) = 10
                /\ s[5] = "-" /\ s[8] = "-"
                /\ \A i \in {1, 2, 3, 4, 6, 7, 9, 10} : s[i] \in Digits
      y == 1000 * DigitVal(s[1]) + 100 * DigitVal(s[2]) + 10 * DigitVal(s[3]) + DigitVal(s[4])
      m == 10 * DigitVal(s[6]) + DigitVal(s[7])
      d == 10 * DigitVal(s[9]) + DigitVal(s[10])
  IN IF shaped /\ m \in 1..12 /\ d >= 1 /\ d <= DaysIn(y, m)
     THEN [ok |-> TRUE, t |-> [y |-> y, m |-> m, d |-> d]]
     ELSE [ok |-> FALSE, t |-> ZeroDate]

\* a.After(b)
After(a, b) ==
  \/ a.y > b.y
  \/ a.y = b.y /\ a.m > b.m
  \/ a.y = b.y /\ a.m = b.m /\ a.d > b.d

MonthAbbr ==
  << <<"J", "a", "n">>, <<"F", "e", "b">>, <<"M", "a", "r">>, <<"A", "p", "r">>,
     <<"M", "a", "y">>, <<"J", "u", "n">>, <<"J", "u", "l">>, <<"A", "u", "g">>,
     <<"S", "e", "p">>, <<"O", "c", "t">>, <<"N", "o", "v">>, <<"D", "e", "c">> >>

\* t.Format("Jan 02, 2006")
FormatDate(t) ==
  MonthAbbr[t.m] \o <<" ", DigitChar(t.d \div 10), DigitChar(t.d % 10), ",", " ">>
    \o <<DigitChar(t.y \div 1000), DigitChar((t.y \div 100) % 10),
         DigitChar((t.y \div 10) % 10), DigitChar(t.y % 10)>>

(* -------------------------------- tags --------------------------------- *)
\* strings.Trim(s, "[]")
RECURSIVE TrimBrackets(_)
TrimBrackets(s) ==
  IF s # <<>> /\ Head(s) \in {"[", "]"} THEN TrimBrackets(Tail(s))
  ELSE IF s # <<>> /\ s[Len(s)] \in {"[", "]"} THEN TrimBrackets(SubSeq(s, 1, Len(s) - 1))
  ELSE s

\* strings.ReplaceAll(s, c, "") for a one-character c
RECURSIVE RemoveChar(_, _)
RemoveChar(s, c) ==
  IF s = <<>> THEN <<>>
  ELSE IF Head(s) = c THEN RemoveChar(Tail(s), c)
  ELSE <<Head(s)>> \o RemoveChar(Tail(s), c)

\* strings.Split(s, ",")
RECURSIVE SplitComma(_)
SplitComma(s) ==
  LET i == Index(s, <<",">>)
  IN IF i < 0 THEN <<s>>
     ELSE <<SubSeq(s, 1, i)>> \o SplitComma(SubSeq(s, i + 2, Len(s)))

\* the loop that trims the parts and keeps the non-empty ones
RECURSIVE KeepTags(_)
KeepTags(parts) ==
  IF parts = <<>> THEN <<>>
  ELSE LET t == TrimSpace(Head(parts))
       IN IF t # <<>> THEN <<t>> \o KeepTags(Tail(parts)) ELSE KeepTags(Tail(parts))

\* the page parser with the single quotes left in
ParseTags_KeepsSingleQuotes(tagsValue) ==
  IF tagsValue = <<>> THEN <<>>
  ELSE KeepTags(SplitComma(RemoveChar(TrimBrackets(tagsValue), "\"")))

\* main.go:211-223: the tags of meta["tags"] for the page record
ParseTags(tagsValue) ==
  IF tagsValue = <<>> THEN <<>>
  ELSE KeepTags(SplitComma(RemoveChar(RemoveChar(TrimBrackets(tagsValue), "\""), "'")))

\* main.go:474-485: the copy of the parser in the tag walk; it yields the
\* tags that are then lower-cased into keys
ParseTagsIndex(tagsValue) ==
  IF tagsValue = <<>> THEN <<>>
  ELSE KeepTags(SplitComma(RemoveChar(RemoveChar(TrimBrackets(tagsValue), "\""), "'")))

\* main.go:570-582: the copy of the parser in the search walk
ParseTagsSearch(tagsValue) ==
  IF tagsValue = <<>> THEN <<>>
  ELSE KeepTags(SplitComma(RemoveChar(RemoveChar(TrimBrackets(tagsValue), "\""), "'")))

LowerOf(c) ==
  CASE c = "G" -> "g" [] c = "T" -> "t" [] c = "W" -> "w"
    [] c = "J" -> "j" [] c = "F" -> "f" [] c = "M" -> "m" [] c = "A" -> "a"
    [] c = "S" -> "s" [] c = "O" -> "o" [] c = "N" -> "n" [] c = "D" -> "d"
    [] OTHER -> c

\* strings.ToLower
ToLower(s) == [i \in 1..Len(s) |-> LowerOf(s[i])]

\* strings.Join(tags, ",")
RECURSIVE JoinComma(_)
JoinComma(ts) ==
  IF ts = <<>> THEN <<>>
  ELSE IF Len(ts) = 1 THEN ts[1]
  ELSE ts[1] \o <<",">> \o JoinComma(Tail(ts))

(* ------------------------- processMarkdownFile ------------------------- *)
KeyDate == <<"d", "a", "t", "e">>
KeyTags == <<"t", "a", "g", "s">>
KeyDescription == <<"d", "e", "s", "c", "r", "i", "p", "t", "i", "o", "n">>

\* md.Convert(body, &buf): goldmark lies outside the repository; the rendered
\* HTML is kept opaque as the body inside a marker element, and writing to a
\* bytes.Buffer does not fail
Convert(body) == <<"<", "m", "d", ">">> \o body

\* filepath.Base of a path given by its components
Base(path) == path[Len(path)]

\* the zero Post
NoPost ==
  [Title |-> <<>>, Description |-> <<>>, Date |-> ZeroDate, Tags |-> <<>>,
   Content |-> <<>>, URL |-> <<>>, Slug |-> <<>>]

processMarkdownFile(fs, path, outputRelPath, baseURL) ==
  LET r == parseFrontmatter(ReadFile(fs, path))
  IN IF r.err THEN [err |-> TRUE, post |-> NoPost]
     ELSE [err |-> FALSE,
           post |-> [Title |-> MetaGet(r.meta, KeyTitle),
                     Description |-> MetaGet(r.meta, KeyDescription),
                     Date |-> ParseDate(MetaGet(r.meta, KeyDate)).t,
                     Tags |-> ParseTags(MetaGet(r.meta, KeyTags)),
                     Content |-> Convert(r.body),
                     Slug |-> TrimSuffix(Base(path), DotMd),
                     URL |-> baseURL \o outputRelPath]]

(* ------------------------------ sort.Slice ----------------------------- *)
\* the rearrangements of s
Rearrangements(s) ==
  {[i \in 1..Len(s) |-> s[f[i]]] :
     f \in {g \in [1..Len(s) -> 1..Len(s)] : \A i, j \in 1..Len(s) : g[i] = g[j] => i = j}}

\* sort.Slice(s, func(i, j) bool { return s[i].Date.After(s[j].Date) }): the
\* sort is not stable, so every rearrangement that is ordered by the less
\* function is a possible result
SortSliceByDate(s) ==
  {q \in Rearrangements(s) : \A i, j \in 1..Len(q) : i < j => ~After(q[j].Date, q[i].Date)}

(* ------------------ specification of the tree builder ------------------ *)
NameGit == <<".", "g", "i", "t">>
NameDocs == <<"d", "o", "c", "s">>
NameDotH == <<".", "h", ".", "m", "d">>
NameA == <<"a", ".", "m", "d">>
NameDraft == <<"_", "d", "r", "a", "f", "t", ".", "m", "d">>
NamePng == <<"p", ".", "p", "n", "g">>

TreeDirNames == {NameImages, NameGit, NameDocs}
TreeFileNames == {NameIndexMd, NameDotH, NameA, NameDraft, NamePng}

DocTitled ==
  Delim \o <<"t", "i", "t", "l", "e", ":", " ", "T", NL>> \o Delim \o <<"x", NL>>

TreeDirs == UNION {[1..n -> TreeDirNames] : n \in 0..MaxTreeDepth}
TreeFiles == {[path |-> Append(d, n), data |-> DocTitled] : d \in TreeDirs, n \in TreeFileNames}
TreeWorlds == SmallSubsets(TreeFiles, MaxTreeFiles)

(* ------------------ the state of a part that is not run ---------------- *)
NoResult == [meta |-> EmptyMeta, body |-> <<>>, err |-> FALSE]

FmIdle ==
  /\ fmContent = <<>>
  /\ fmResult = NoResult
  /\ fmPc = "idle"
  /\ fmAgain = NoResult

NoTags == [page |-> <<>>, index |-> <<>>, search |-> <<>>]

TagIdle ==
  /\ tagWords = <<>>
  /\ tagStr = <<>>
  /\ tagOut = NoTags
  /\ tagPc = "idle"

NoId == [has |-> FALSE, type |-> "none", val |-> <<>>]

HeadIdle ==
  /\ hLevel = 1
  /\ hId = NoId
  /\ hOut = <<>>
  /\ hPc = "idle"

PureIdle == FmIdle /\ TagIdle /\ HeadIdle

TreeIdle ==
  /\ notes = {}
  /\ cfgBaseURL = <<"/">>
  /\ notesTree = <<>>
  /\ treePc = "idle"

(* -------------------------------- main --------------------------------- *)
\* a file of public/
Out(kind, name) == [kind |-> kind, name |-> name]

\* filepath.Walk: the files below dir in lexical order, directory by directory
RECURSIVE WalkDir(_, _)
RECURSIVE WalkNames(_, _, _)
WalkNames(fs, dir, names) ==
  IF names = <<>> THEN <<>>
  ELSE LET path == Append(dir, Head(names))
       IN (IF IsDir(fs, path) THEN WalkDir(fs, path) ELSE <<path>>)
            \o WalkNames(fs, dir, Tail(names))

WalkDir(fs, dir) == WalkNames(fs, dir, ReadDir(fs, dir))

\* the path as the walk hands it to its callback: "notes/" and the components
WalkPath(path) == NotesSlash \o RelPath(path)

\* the callbacks act on the markdown files other than _index.md
IsNote(path) == HasSuffix(WalkPath(path), DotMd) /\ Base(path) # NameIndexMd

\* the url with the suffix left on the relative path
NoteURL_KeepsSuffix(baseURL, path) == baseURL \o NotesSlash \o RelPath(path)

\* cfg.BaseURL + "notes/" + strings.TrimSuffix(relPath, ".md")
NoteURL(baseURL, path) == baseURL \o NotesSlash \o TrimSuffix(RelPath(path), DotMd)

\* the default homepage text of main.go:315
DefaultHome == <<"<", "p", ">">>

\* main.go:304-316
HomeOf(fs) ==
  IF \E f \in fs : f.path = <<NameIndexMd>>
  THEN LET r == parseFrontmatter(ReadFile(fs, <<NameIndexMd>>))
       IN IF ~r.err /\ Convert(r.body) # <<>> THEN Convert(r.body) ELSE DefaultHome
  ELSE DefaultHome

\* the literal list of main.go:318 the loop over the posts ranges over
PostFiles == <<>>

\* tagsMap[key] = append(tagsMap[key], p)
MapAppend(m, key, p) ==
  [k \in (DOMAIN m) \cup {key} |->
     IF k = key THEN (IF key \in DOMAIN m THEN Append(m[key], p) ELSE <<p>>) ELSE m[k]]

\* main.go:439-441 and 479-484: index p under the lower-cased form of each tag
RECURSIVE IndexTags(_, _, _)
IndexTags(m, tags, p) ==
  IF tags = <<>> THEN m
  ELSE IndexTags(MapAppend(m, ToLower(Head(tags)), p), Tail(tags), p)

\* main.go:438-442
RECURSIVE TagsFromPosts(_, _)
TagsFromPosts(m, ps) ==
  IF ps = <<>> THEN m
  ELSE TagsFromPosts(IndexTags(m, Head(ps).Tags, Head(ps)), Tail(ps))

\* the title of a note in the tag and search walks: meta["title"] or the file name
TitleOr(meta, path) ==
  IF MetaGet(meta, KeyTitle) = <<>> THEN Base(path) ELSE MetaGet(meta, KeyTitle)

\* main.go:454-472: the Post of the tag walk; the parse error is dropped
TagWalkPost(fs, path, baseURL) ==
  LET meta == parseFrontmatter(ReadFile(fs, path)).meta
  IN [Title |-> TitleOr(meta, path),
      Description |-> MetaGet(meta, KeyDescription),
      Date |-> ParseDate(MetaGet(meta, KeyDate)).t,
      URL |-> NoteURL(baseURL, path),
      Tags |-> <<>>, Content |-> <<>>, Slug |-> <<>>]

\* main.go:445-488: the walk that collects the tags of the notes
RECURSIVE TagsFromNotes(_, _, _, _)
TagsFromNotes(m, fs, paths, baseURL) ==
  IF paths = <<>> THEN m
  ELSE LET path == Head(paths)
           meta == parseFrontmatter(ReadFile(fs, path)).meta
       IN IF IsNote(path)
          THEN TagsFromNotes(IndexTags(m, ParseTagsIndex(MetaGet(meta, KeyTags)),
                                       TagWalkPost(fs, path, baseURL)),
                             fs, Tail(paths), baseURL)
          ELSE TagsFromNotes(m, fs, Tail(paths), baseURL)

\* main.go:514-524: the search record of a post
PostItem(post) ==
  [title |-> post.Title, url |-> post.URL, date |-> FormatDate(post.Date),
   content |-> post.Content, type |-> "post", tags |-> JoinComma(post.Tags)]

\* formattedDate left empty when the date does not parse
SearchDate_EmptyOnFailure(dateStr) ==
  IF dateStr = <<>> THEN <<>>
  ELSE IF ParseDate(dateStr).ok THEN FormatDate(ParseDate(dateStr).t)
  ELSE <<>>

\* main.go:549-560: formattedDate
SearchDate(dateStr) ==
  IF dateStr = <<>> THEN <<>>
  ELSE IF ParseDate(dateStr).ok THEN FormatDate(ParseDate(dateStr).t)
  ELSE dateStr

\* main.go:536-591: the search record of a note; parse and render errors are dropped
NoteItem(fs, path, baseURL) ==
  LET r == parseFrontmatter(ReadFile(fs, path))
  IN [title |-> TitleOr(r.meta, path), url |-> NoteURL(baseURL, path),
      date |-> SearchDate(MetaGet(r.meta, KeyDate)),
      content |-> Convert(r.body), type |-> "note",
      tags |-> JoinComma(ParseTagsSearch(MetaGet(r.meta, KeyTags)))]

\* main.go:563-568: the Post of a note kept for the sitemap
SitemapNote(fs, path, baseURL) ==
  LET meta == parseFrontmatter(ReadFile(fs, path)).meta
  IN [Title |-> TitleOr(meta, path), URL |-> NoteURL(baseURL, path),
      Date |-> ParseDate(MetaGet(meta, KeyDate)).t,
      Description |-> MetaGet(meta, KeyDescription),
      Tags |-> <<>>, Content |-> <<>>, Slug |-> <<>>]

\* the walk passing over what the tree builder skips as well
NotesOf_SkipsHidden(paths) ==
  SelectSeq(paths, LAMBDA p : IsNote(p) /\ \A i \in 1..Len(p) : ~Skipped(p[i]))

\* the notes among the walked paths, in walk order
RECURSIVE NotesOf(_)
NotesOf(paths) ==
  IF paths = <<>> THEN <<>>
  ELSE IF IsNote(Head(paths)) THEN <<Head(paths)>> \o NotesOf(Tail(paths))
  ELSE NotesOf(Tail(paths))

\* the documents the notes and posts of the model hold
DocGood ==
  Delim
    \o <<"t", "i", "t", "l", "e", ":", " ", "T", NL>>
    \o <<"d", "a", "t", "e", ":", " ", "2", "0", "2", "4", "-", "0", "3", "-", "0", "1", NL>>
    \o <<"t", "a", "g", "s", ":", " ", "[", "G", "o", ",", " ", "w", "e", "b", "]", NL>>
    \o Delim
    \o <<"x", NL>>

DocDup ==
  Delim
    \o <<"d", "a", "t", "e", ":", " ", "s", "o", "o", "n", NL>>
    \o <<"t", "a", "g", "s", ":", " ", "[", "g", "o", ",", " ", "G", "o", "]", NL>>
    \o Delim
    \o <<"x">>

DocMalformed ==
  Delim
    \o <<"t", "i", "t", "l", "e", ":", " ", "T", NL>>

DocPlain ==
  <<"x", NL>>

DocWeb ==
  Delim
    \o <<"d", "a", "t", "e", ":", " ", "2", "0", "2", "4", "-", "0", "3", "-", "0", "1", NL>>
    \o <<"t", "a", "g", "s", ":", " ", "'", "w", "e", "b", "'", NL>>
    \o Delim

NameB == <<"b", ".", "m", "d", ".", "m", "d">>
NameC == <<"c", ".", "m", "d">>
NameD == <<"d", ".", "m", "d">>
NameP == <<"p", ".", "m", "d">>

NoteFile(path, data) == [path |-> path, data |-> data]

NoteCandidates ==
  { NoteFile(<<NameA>>, DocGood), NoteFile(<<NameA>>, DocDup),
    NoteFile(<<NameA>>, DocMalformed), NoteFile(<<NameA>>, DocPlain),
    NoteFile(<<NameB>>, DocGood),
    NoteFile(<<NameDocs, NameD>>, DocWeb),
    NoteFile(<<NameIndexMd>>, DocPlain),
    NoteFile(<<NameDotH>>, DocGood),
    NoteFile(<<NameImages, NameC>>, DocGood),
    NoteFile(<<NameGit, NameA>>, DocPlain),
    NoteFile(<<NamePng>>, <<"x">>) }

\* a directory holds one file of a name
DistinctPaths(w) == \A f, g \in w : f.path = g.path => f = g

NoteWorlds ==
  {w \in SmallSubsets(NoteCandidates, MaxNotes) : DistinctPaths(w)}

ContentCandidates == {NoteFile(<<NameP>>, DocGood)}

ContentWorlds == SmallSubsets(ContentCandidates, MaxPosts)

\* base_url values of a config.json that parses
ConfigBaseURLs == {<<"/">>, <<"/", "b", "/">>}

EmptyMap == [k \in {} |-> <<>>]

MainIdle ==
  /\ contentDir = {}
  /\ public = {}
  /\ pc = "idle"
  /\ homeContent = <<>>
  /\ posts = <<>>
  /\ walkTodo = <<>>
  /\ noteErr = "none"
  /\ pagePosts = {}
  /\ indexPosts = <<>>
  /\ tagsMap = EmptyMap
  /\ tagPages = EmptyMap
  /\ allSearchItems = <<>>
  /\ allNotes = <<>>

Init ==
  /\ notes \in NoteWorlds
  /\ contentDir \in ContentWorlds
  /\ public \in {{}, {Out("stale", <<>>)}}
  /\ pc = "config"
  /\ cfgBaseURL = <<>>
  /\ notesTree = <<>>
  /\ treePc = "idle"
  /\ homeContent = <<>>
  /\ posts = <<>>
  /\ walkTodo = <<>>
  /\ noteErr = "none"
  /\ pagePosts = {}
  /\ indexPosts = <<>>
  /\ tagsMap = EmptyMap
  /\ tagPages = EmptyMap
  /\ allSearchItems = <<>>
  /\ allNotes = <<>>
  /\ PureIdle

\* main.go:261-275: config.json is absent, does not parse, or gives base_url
ReadConfig ==
  /\ pc = "config"
  /\ \E c \in {"absent", "invalid", "valid"} :
       \/ /\ c = "absent"
          /\ cfgBaseURL' = <<"/">>
          /\ pc' = "tree"
       \/ /\ c = "invalid"
          /\ cfgBaseURL' = cfgBaseURL
          /\ pc' = "fatal"
       \/ /\ c = "valid"
          /\ cfgBaseURL' \in ConfigBaseURLs
          /\ pc' = "tree"
  /\ UNCHANGED <<notes, notesTree, treePc, contentDir, public, homeContent, posts,
                 walkTodo, noteErr, pagePosts, indexPosts, tagsMap, tagPages, allSearchItems,
                 allNotes>>
  /\ UNCHANGED pureVars

\* main.go:278-283
BuildTree ==
  /\ pc = "tree"
  /\ notesTree' = buildNotesTree(notes, <<>>, cfgBaseURL)
  /\ pc' = "clean"
  /\ UNCHANGED <<notes, cfgBaseURL, treePc, contentDir, public, homeContent, posts,
                 walkTodo, noteErr, pagePosts, indexPosts, tagsMap, tagPages, allSearchItems,
                 allNotes>>
  /\ UNCHANGED pureVars

\* main.go:286: os.RemoveAll removes what it can and reports the first error
\* it met; what it leaves is any part of the directory, nothing on success
RemoveAll(pub) == SUBSET pub

\* main.go:286-289: os.RemoveAll and os.MkdirAll of public.  The result of
\* RemoveAll is not looked at, and MkdirAll accepts a directory that exists.
CleanPublic ==
  /\ pc = "clean"
  /\ public' \in RemoveAll(public)
  /\ \E mkdirOk \in BOOLEAN : pc' = IF mkdirOk THEN "templates" ELSE "fatal"
  /\ UNCHANGED <<notes, cfgBaseURL, notesTree, treePc, contentDir, homeContent, posts,
                 walkTodo, noteErr, pagePosts, indexPosts, tagsMap, tagPages, allSearchItems,
                 allNotes>>
  /\ UNCHANGED pureVars

\* main.go:292-298
LoadTemplates ==
  /\ pc = "templates"
  /\ \E parseOk \in BOOLEAN : pc' = IF parseOk THEN "home" ELSE "fatal"
  /\ UNCHANGED <<notes, cfgBaseURL, notesTree, treePc, contentDir, public, homeContent,
                 posts, walkTodo, noteErr, pagePosts, indexPosts, tagsMap, tagPages,
                 allSearchItems, allNotes>>
  /\ UNCHANGED pureVars

\* main.go:301-316
ReadHome ==
  /\ pc = "home"
  /\ homeContent' = HomeOf(notes)
  /\ posts' = <<>>
  /\ pc' = "posts"
  /\ UNCHANGED <<notes, cfgBaseURL, notesTree, treePc, contentDir, public, walkTodo,
                 noteErr, pagePosts, indexPosts, tagsMap, tagPages, allSearchItems, allNotes>>
  /\ UNCHANGED pureVars

\* main.go:318-342: the loop over PostFiles, then the start of the notes walk.
\* The fatal exits of the loop body need a file to fail on.
ProcessPosts ==
  /\ pc = "posts"
  /\ posts' = posts \o
       [i \in 1..Len(PostFiles) |->
          processMarkdownFile(contentDir, PostFiles[i],
                              TrimSuffix(Base(PostFiles[i]), DotMd), cfgBaseURL).post]
  /\ public' = public \cup
       {Out("post", TrimSuffix(Base(PostFiles[i]), DotMd)) : i \in 1..Len(PostFiles)}
  /\ walkTodo' = WalkDir(notes, <<>>)
  /\ pc' = IF WalkDir(notes, <<>>) = <<>> THEN "sort" ELSE "walk"
  /\ UNCHANGED <<notes, cfgBaseURL, notesTree, treePc, contentDir, homeContent,
                 noteErr, pagePosts, indexPosts, tagsMap, tagPages, allSearchItems, allNotes>>
  /\ UNCHANGED pureVars

\* what main only reads once the notes walk has begun
readOnly == <<notes, cfgBaseURL, notesTree, treePc, contentDir, homeContent>>

\* main.go:345-400: one call of the walk's callback, for the next file.  A
\* directory is passed over (main.go:349-351).  An error the callback returns
\* ends the walk; main drops the error the walk returns.
NoteVisit ==
  /\ pc = "walk"
  /\ walkTodo # <<>>
  /\ LET path == Head(walkTodo)
         clean == TrimSuffix(RelPath(path), DotMd)
         res == processMarkdownFile(notes, path, NotesSlash \o clean, cfgBaseURL)
         page == Out("page", clean)
         after == IF Tail(walkTodo) = <<>> THEN "sort" ELSE "walk"
     IN \/ /\ HasSuffix(WalkPath(path), DotMd)
           /\ Base(path) = NameIndexMd \/ res.err
           /\ walkTodo' = Tail(walkTodo)
           /\ pc' = after
           /\ UNCHANGED <<public, noteErr, pagePosts>>
        \/ /\ IsNote(path)
           /\ ~res.err
           /\ \E r \in {"createFails", "executeFails", "ok"} :
                \/ /\ r = "createFails"
                   /\ walkTodo' = <<>>
                   /\ pc' = "sort"
                   /\ noteErr' = IF noteErr = "none" THEN "create" ELSE noteErr
                   /\ UNCHANGED <<public, pagePosts>>
                \/ /\ r = "executeFails"
                   /\ walkTodo' = Tail(walkTodo)
                   /\ pc' = after
                   /\ noteErr' = IF noteErr = "none" THEN "execute" ELSE noteErr
                   /\ public' = public \cup {page}
                   /\ pagePosts' = pagePosts \cup {res.post}
                \/ /\ r = "ok"
                   /\ walkTodo' = Tail(walkTodo)
                   /\ pc' = after
                   /\ public' = public \cup {page}
                   /\ pagePosts' = pagePosts \cup {res.post}
                   /\ UNCHANGED noteErr
        \/ /\ ~HasSuffix(WalkPath(path), DotMd)
           /\ \E copied \in BOOLEAN :
                public' = IF copied THEN public \cup {Out("asset", RelPath(path))}
                          ELSE public
           /\ walkTodo' = Tail(walkTodo)
           /\ pc' = after
           /\ UNCHANGED <<noteErr, pagePosts>>
  /\ UNCHANGED <<posts, indexPosts, tagsMap, tagPages, allSearchItems, allNotes>>
  /\ UNCHANGED readOnly
  /\ UNCHANGED pureVars

\* main.go:403-405
SortPosts ==
  /\ pc = "sort"
  /\ posts' \in SortSliceByDate(posts)
  /\ pc' = "index"
  /\ UNCHANGED <<public, walkTodo, noteErr, pagePosts, indexPosts, tagsMap, tagPages,
                 allSearchItems, allNotes>>
  /\ UNCHANGED readOnly
  /\ UNCHANGED pureVars

\* os.Create of a file of public/ and the write into it: a failure of either
\* is fatal; the file exists once it is created
WriteOutput(kind, outcomes, next) ==
  \E r \in outcomes :
    /\ public' = IF r = "createFails" THEN public ELSE public \cup {Out(kind, <<>>)}
    /\ pc' = IF r = "ok" THEN next ELSE "fatal"

\* main.go:408-419
WriteIndex ==
  /\ pc = "index"
  /\ WriteOutput("index.html", {"createFails", "executeFails", "ok"}, "notesIndex")
  /\ indexPosts' = IF Out("index.html", <<>>) \in public' THEN posts ELSE indexPosts
  /\ UNCHANGED <<posts, walkTodo, noteErr, pagePosts, tagsMap, tagPages, allSearchItems, allNotes>>
  /\ UNCHANGED readOnly
  /\ UNCHANGED pureVars

\* main.go:422-432
WriteNotesIndex ==
  /\ pc = "notesIndex"
  /\ WriteOutput("notes.html", {"createFails", "executeFails", "ok"}, "collectTags")
  /\ UNCHANGED <<posts, walkTodo, noteErr, pagePosts, indexPosts, tagsMap, tagPages,
                 allSearchItems, allNotes>>
  /\ UNCHANGED readOnly
  /\ UNCHANGED pureVars

\* main.go:435-488
CollectTags ==
  /\ pc = "collectTags"
  /\ tagsMap' = TagsFromNotes(TagsFromPosts(EmptyMap, posts), notes,
                              WalkDir(notes, <<>>), cfgBaseURL)
  /\ pc' = "tagPages"
  /\ UNCHANGED <<public, posts, walkTodo, noteErr, pagePosts, indexPosts, tagPages,
                 allSearchItems, allNotes>>
  /\ UNCHANGED readOnly
  /\ UNCHANGED pureVars

\* main.go:490-507: every list is sorted in place; a page whose file cannot
\* be created is passed over, and the error of ExecuteTemplate is dropped
WriteTagPages ==
  /\ pc = "tagPages"
  /\ \E sorted \in [DOMAIN tagsMap -> UNION {SortSliceByDate(tagsMap[k]) : k \in DOMAIN tagsMap}] :
       /\ \A k \in DOMAIN tagsMap : sorted[k] \in SortSliceByDate(tagsMap[k])
       /\ \E failed \in SUBSET (DOMAIN tagsMap) :
            /\ Cardinality(failed) <= MaxTagFailures
            /\ tagsMap' = sorted
            /\ tagPages' = [k \in (DOMAIN tagsMap) \ failed |-> sorted[k]]
            /\ public' = public \cup {Out("tag", k) : k \in (DOMAIN tagsMap) \ failed}
  /\ pc' = "searchWalk"
  /\ UNCHANGED <<posts, walkTodo, noteErr, pagePosts, indexPosts, allSearchItems, allNotes>>
  /\ UNCHANGED readOnly
  /\ UNCHANGED pureVars

\* main.go:510-594
SearchWalk ==
  /\ pc = "searchWalk"
  /\ LET ns == NotesOf(WalkDir(notes, <<>>))
     IN /\ allSearchItems' = [i \in 1..Len(posts) |-> PostItem(posts[i])]
                               \o [i \in 1..Len(ns) |-> NoteItem(notes, ns[i], cfgBaseURL)]
        /\ allNotes' = [i \in 1..Len(ns) |-> SitemapNote(notes, ns[i], cfgBaseURL)]
  /\ pc' = "searchJson"
  /\ UNCHANGED <<public, posts, walkTodo, noteErr, pagePosts, indexPosts, tagsMap, tagPages>>
  /\ UNCHANGED readOnly
  /\ UNCHANGED pureVars

\* the outputs that hand no data on to a later statement
WritePlain(here, kind, outcomes, next) ==
  /\ pc = here
  /\ WriteOutput(kind, outcomes, next)
  /\ UNCHANGED <<posts, walkTodo, noteErr, pagePosts, indexPosts, tagsMap, tagPages,
                 allSearchItems, allNotes>>
  /\ UNCHANGED readOnly
  /\ UNCHANGED pureVars

\* main.go:596-604
WriteSearchJson ==
  WritePlain("searchJson", "search.json", {"createFails", "encodeFails", "ok"}, "sitemap")

\* main.go:607-620
WriteSitemap ==
  WritePlain("sitemap", "sitemap.xml", {"createFails", "executeFails", "ok"}, "robots")

\* main.go:623-633
WriteRobots ==
  WritePlain("robots", "robots.txt", {"createFails", "executeFails", "ok"}, "rss")

\* main.go:636-656
WriteRss ==
  WritePlain("rss", "rss.xml", {"createFails", "executeFails", "ok"}, "404")

\* main.go:659-669
Write404 ==
  WritePlain("404", "404.html", {"createFails", "executeFails", "ok"}, "redirects")

\* main.go:672-677
WriteRedirects ==
  WritePlain("redirects", "_redirects", {"createFails", "ok"}, "static")

\* a walk that copies a directory into public/; its errors are dropped
CopyDir(here, kind, next) ==
  /\ pc = here
  /\ \E copied \in BOOLEAN :
       public' = IF copied THEN public \cup {Out(kind, <<>>)} ELSE public
  /\ pc' = next
  /\ UNCHANGED <<posts, walkTodo, noteErr, pagePosts, indexPosts, tagsMap, tagPages,
                 allSearchItems, allNotes>>
  /\ UNCHANGED readOnly
  /\ UNCHANGED pureVars

\* main.go:680-700
CopyStatic == CopyDir("static", "static", "assets")

\* main.go:703-726: the copy of assets/, then "Build complete!"
CopyAssets == CopyDir("assets", "assets", "done")

Next ==
  \/ ReadConfig
  \/ BuildTree
  \/ CleanPublic
  \/ LoadTemplates
  \/ ReadHome
  \/ ProcessPosts
  \/ NoteVisit
  \/ SortPosts
  \/ WriteIndex
  \/ WriteNotesIndex
  \/ CollectTags
  \/ WriteTagPages
  \/ SearchWalk
  \/ WriteSearchJson
  \/ WriteSitemap
  \/ WriteRobots
  \/ WriteRss
  \/ Write404
  \/ WriteRedirects
  \/ CopyStatic
  \/ CopyAssets

Spec == Init /\ [][Next]_vars

(* ---------------- specification of the frontmatter parser --------------- *)
\* pieces the parser inputs are assembled from
Segments ==
  { Delim,
    <<"k", ":", "v", NL>>,
    <<":", "v", NL>>,
    <<"k", "v", NL>>,
    <<" ", "k", " ", ":", " ", "w", " ", NL>>,
    <<"t", ":", "a", ":", "b", "\r", NL>>,
    <<"-">>,
    <<"k", ":", "u">> }

RECURSIVE Flatten(_)
Flatten(ss) == IF ss = <<>> THEN <<>> ELSE Head(ss) \o Flatten(Tail(ss))

SegSeqs == UNION {[1..n -> Segments] : n \in 0..MaxSegs}

FmInputs == {Flatten(ss) : ss \in SegSeqs}

FmInit ==
  /\ fmContent \in FmInputs
  /\ fmResult = NoResult
  /\ fmPc = "call"
  /\ fmAgain = NoResult
  /\ TagIdle
  /\ HeadIdle
  /\ TreeIdle
  /\ MainIdle

FmParse ==
  /\ fmPc = "call"
  /\ fmResult' = parseFrontmatter(fmContent)
  /\ fmPc' = "returned"
  /\ UNCHANGED <<fmContent, fmAgain>>
  /\ UNCHANGED tagVars
  /\ UNCHANGED headVars
  /\ UNCHANGED treeVars
  /\ UNCHANGED mainVars

\* a second call of parseFrontmatter, on the body the first call returned
FmReparse ==
  /\ fmPc = "returned"
  /\ ~fmResult.err
  /\ fmAgain' = parseFrontmatter(fmResult.body)
  /\ fmPc' = "reparsed"
  /\ UNCHANGED <<fmContent, fmResult>>
  /\ UNCHANGED tagVars
  /\ UNCHANGED headVars
  /\ UNCHANGED treeVars
  /\ UNCHANGED mainVars

FmNext == FmParse \/ FmReparse

SpecFM == FmInit /\ [][FmNext]_vars

(* ------------------- specification of the tag parsers ------------------ *)
TagWords == {<<"g", "o">>, <<"w", "e", "b">>, <<"G", "o">>, <<>>}
TagQuotes == {<<>>, <<"\"">>, <<"'">>}
TagSeparators == {<<",">>, <<",", " ">>}

\* the tokens joined by the separator
RECURSIVE JoinWith(_, _)
JoinWith(ws, sep) ==
  IF ws = <<>> THEN <<>>
  ELSE IF Len(ws) = 1 THEN ws[1]
  ELSE ws[1] \o sep \o JoinWith(Tail(ws), sep)

\* a spelling of the tags: each in the quote q, joined by sep, in brackets or not
Spell(ws, q, sep, bracketed) ==
  LET list == JoinWith([i \in 1..Len(ws) |-> q \o ws[i] \o q], sep)
  IN IF bracketed THEN <<"[">> \o list \o <<"]">> ELSE list

TagsInit ==
  /\ tagWords \in UNION {[1..n -> TagWords] : n \in 0..MaxTags}
  /\ \E q \in TagQuotes, sep \in TagSeparators, bracketed \in BOOLEAN :
       tagStr = Spell(tagWords, q, sep, bracketed)
  /\ tagOut = NoTags
  /\ tagPc = "call"
  /\ FmIdle
  /\ HeadIdle
  /\ TreeIdle
  /\ MainIdle

\* main.go:211-223, 474-485, 570-582 on the same value of meta["tags"]
TagsParse ==
  /\ tagPc = "call"
  /\ tagOut' = [page |-> ParseTags(tagStr), index |-> ParseTagsIndex(tagStr),
                search |-> ParseTagsSearch(tagStr)]
  /\ tagPc' = "parsed"
  /\ UNCHANGED <<tagWords, tagStr>>
  /\ UNCHANGED fmVars
  /\ UNCHANGED headVars
  /\ UNCHANGED treeVars
  /\ UNCHANGED mainVars

TagsNext == TagsParse

SpecTags == TagsInit /\ [][TagsNext]_vars

(* ----------------- specification of the heading renderer --------------- *)
\* the ids of the model; goldmark's automatic heading ids are []byte values
HeadingIds ==
  {NoId} \cup
  {[has |-> TRUE, type |-> t, val |-> v] :
     t \in {"bytes", "string"},
     v \in {<<>>, <<"s", "e", "t", "u", "p">>, <<"i", "n", "t", "r", "o">>}}

HeadingInit ==
  /\ hLevel \in 1..6
  /\ hId \in HeadingIds
  /\ hOut = <<>>
  /\ hPc = "enter"
  /\ FmIdle
  /\ TagIdle
  /\ TreeIdle
  /\ MainIdle

\* renderHeading(w, source, node, entering = true)
HeadingEnter ==
  /\ hPc = "enter"
  /\ hOut' = hOut \o HeadingOpen(hLevel, hId)
  /\ hPc' = "children"
  /\ UNCHANGED <<hLevel, hId, fmVars, tagVars, treeVars, mainVars>>

\* the walk renders the children of the heading: its content
HeadingChildren ==
  /\ hPc = "children"
  /\ hOut' = Append(hOut, Chunk("content", <<>>))
  /\ hPc' = "leave"
  /\ UNCHANGED <<hLevel, hId, fmVars, tagVars, treeVars, mainVars>>

\* renderHeading(w, source, node, entering = false)
HeadingLeave ==
  /\ hPc = "leave"
  /\ hOut' = hOut \o CopyButton(hLevel, hId) \o HeadingClose(hLevel)
  /\ hPc' = "done"
  /\ UNCHANGED <<hLevel, hId, fmVars, tagVars, treeVars, mainVars>>

HeadingNext == HeadingEnter \/ HeadingChildren \/ HeadingLeave

SpecHeading == HeadingInit /\ [][HeadingNext]_vars

TreeInit ==
  /\ notes \in TreeWorlds
  /\ cfgBaseURL = <<"/">>
  /\ notesTree = <<>>
  /\ treePc = "call"
  /\ PureIdle
  /\ MainIdle

TreeBuild ==
  /\ treePc = "call"
  /\ notesTree' = buildNotesTree(notes, <<>>, cfgBaseURL)
  /\ treePc' = "returned"
  /\ UNCHANGED <<notes, cfgBaseURL>>
  /\ UNCHANGED pureVars
  /\ UNCHANGED mainVars

TreeNext == TreeBuild

SpecTree == TreeInit /\ [][TreeNext]_vars

(* ------------------- properties of the frontmatter parser --------------- *)
\* the input begins with the line "---" followed by a newline
BeginsWithDelimiterLine(s) ==
  /\ Len(s) >= 4
  /\ s[1] = "-" /\ s[2] = "-" /\ s[3] = "-" /\ s[4] = NL

\* C9: for every input that does not begin with the delimiter line,
\* parseFrontmatter returns an empty mapping, the input unchanged as the
\* body, and no error.
C9_NoDelimiterPassesThrough ==
  (fmPc = "returned" /\ ~BeginsWithDelimiterLine(fmContent))
    => /\ DOMAIN fmResult.meta = {}
       /\ fmResult.body = fmContent
       /\ fmResult.err = FALSE

\* an input without leading delimiter that still holds key lines and a
\* delimiter further on has been parsed
C9_Witness ==
  /\ fmPc = "returned"
  /\ ~BeginsWithDelimiterLine(fmContent)
  /\ Index(fmContent, Delim) > 0
  /\ Index(fmContent, <<":">>) >= 0
  /\ fmResult.body = fmContent

\* the parser found a frontmatter block in the input
FmAccepted ==
  /\ fmPc = "returned"
  /\ BeginsWithDelimiterLine(fmContent)
  /\ fmResult.err = FALSE

\* the lines of the frontmatter block of an accepted input
BlockLines(content) == ScanLines(SplitN(content, Delim, 3)[2])

LineKey(l) == TrimSpace(SubSeq(l, 1, Index(l, <<":">>)))
LineVal(l) == TrimSpace(SubSeq(l, Index(l, <<":">>) + 2, Len(l)))

\* meta holds exactly the pairs of the lines whose first ':' is at an index
\* of at least minIdx, a later line winning over an earlier one of the same key
MetaIsPairsOf(meta, ls, minIdx) ==
  LET P == {i \in 1..Len(ls) : Index(ls[i], <<":">>) >= minIdx}
  IN /\ DOMAIN meta = {LineKey(ls[i]) : i \in P}
     /\ \A i \in P :
          (\A j \in P : j > i => LineKey(ls[j]) # LineKey(ls[i]))
             => meta[LineKey(ls[i])] = LineVal(ls[i])

\* C10 as stated: every line of the block that contains ':' yields a
\* key/value pair, the lines whose first character is ':' included.
C10_EveryColonLineYieldsPair ==
  FmAccepted => MetaIsPairsOf(fmResult.meta, BlockLines(fmContent), 0)

\* C10 amended: a line yields a pair (trimmed text before the first ':',
\* trimmed text after it, a later duplicate key overwriting) exactly when
\* it contains ':' and its first ':' is not its first character; lines
\* without ':' and lines that start with ':' are skipped.
C10_ColonLinesYieldPairs ==
  FmAccepted => MetaIsPairsOf(fmResult.meta, BlockLines(fmContent), 1)

\* a block with a line starting with ':' next to a line that yields a pair
C10_Witness ==
  /\ FmAccepted
  /\ \E i \in 1..Len(BlockLines(fmContent)) : Index(BlockLines(fmContent)[i], <<":">>) = 0
  /\ DOMAIN fmResult.meta # {}

\* the parser found a frontmatter block, and the returned body was parsed again
Reparsed == fmPc = "reparsed" /\ BeginsWithDelimiterLine(fmContent)

\* C11 as stated: for every input accepted with a frontmatter block, parsing
\* the returned body again yields an empty mapping and the same body.
C11_ReparseIsIdentity ==
  Reparsed => DOMAIN fmAgain.meta = {} /\ fmAgain.body = fmResult.body

\* C11 amended: for every input accepted with a frontmatter block whose
\* returned body does not itself begin with the delimiter line, parsing the
\* body again yields an empty mapping, the same body and no error.
C11_ReparseOfPlainBody ==
  (Reparsed /\ ~BeginsWithDelimiterLine(fmResult.body))
    => /\ DOMAIN fmAgain.meta = {}
       /\ fmAgain.body = fmResult.body
       /\ fmAgain.err = FALSE

\* a block that gave pairs, and a body with a key line that was parsed again
C11_Witness ==
  /\ Reparsed
  /\ DOMAIN fmResult.meta # {}
  /\ ~BeginsWithDelimiterLine(fmResult.body)
  /\ Index(fmResult.body, <<":">>) > 0
  /\ fmAgain.body = fmResult.body

(* --------------------- properties of the tag parsers -------------------- *)
\* the tags spelled, without the empty ones
RECURSIVE NonEmptyWords(_)
NonEmptyWords(ws) ==
  IF ws = <<>> THEN <<>>
  ELSE IF Head(ws) = <<>> THEN NonEmptyWords(Tail(ws))
  ELSE <<Head(ws)>> \o NonEmptyWords(Tail(ws))

\* C12: whatever the spelling (brackets or not, double, single or no
\* quotes, a space after the comma or not), each of the three tag parsers
\* gives the tags spelled, in order, the empty ones dropped.
C12_SpellingsGiveSameTags ==
  tagPc = "parsed" =>
    /\ tagOut.page = NonEmptyWords(tagWords)
    /\ tagOut.index = tagOut.page
    /\ tagOut.search = tagOut.page

\* the spelling 'go', 'web' has been parsed into (go, web)
C12_Witness ==
  /\ tagPc = "parsed"
  /\ tagStr = <<"'", "g", "o", "'", ",", " ", "'", "w", "e", "b", "'">>
  /\ tagOut.page = << <<"g", "o">>, <<"w", "e", "b">> >>
  /\ tagOut.search = tagOut.page

(* ------------------- properties of the heading renderer ----------------- *)
\* where in the output the copy button, the content and the closing tag are
ButtonAt == {i \in 1..Len(hOut) : hOut[i].w = "button"}
ContentAt == {i \in 1..Len(hOut) : hOut[i].w = "content"}
CloseAt == {i \in 1..Len(hOut) : hOut[i].w = "</h"}

\* C13: a rendered heading has the copy-link control if and only if its level
\* is 2 or 3 and it has a non-empty id; the control then occurs once,
\* references '#<id>', and stands after the content and before the closing tag.
C13_CopyLinkOnlyForH2H3WithId ==
  hPc = "done" =>
    IF hLevel \in {2, 3} /\ hId.has /\ hId.val # <<>>
    THEN /\ Cardinality(ButtonAt) = 1
         /\ \A b \in ButtonAt :
              /\ hOut[b].arg = <<"#">> \o hId.val
              /\ \A c \in ContentAt : c < b
              /\ \E e \in CloseAt : e = b + 1
    ELSE ButtonAt = {}

\* an h2 with the id setup has been rendered with its control
C13_Witness ==
  /\ hPc = "done"
  /\ hLevel = 2
  /\ hId.val = <<"s", "e", "t", "u", "p">>
  /\ \E b \in ButtonAt : hOut[b].arg = <<"#", "s", "e", "t", "u", "p">>

(* --------------------- properties of the tree builder ------------------- *)
\* the nodes of a tree at every depth, each with the names from the root to it
RECURSIVE NodesAt(_, _)
NodesAt(tree, prefix) ==
  UNION {{[path |-> Append(prefix, tree[i].Name), node |-> tree[i]]}
            \cup NodesAt(tree[i].Children, Append(prefix, tree[i].Name))
         : i \in 1..Len(tree)}

TreeNodes == NodesAt(notesTree, <<>>)

Excluded(name) == name = NameImages \/ name = NameIndexMd \/ (name # <<>> /\ name[1] = ".")

\* C7: the tree holds, at no depth, a node named images, _index.md or starting
\* with '.', and no node below an excluded directory.
C7_NoExcludedNodes ==
  treePc = "returned" =>
    \A n \in TreeNodes :
      /\ ~Excluded(n.node.Name)
      /\ \A i \in 1..Len(n.path) : ~Excluded(n.path[i])
      /\ \E f \in notes : f.path = n.path \/ UnderDir(n.path, f.path)

\* excluded names occur below a listed directory and files lie below an
\* excluded directory, and a tree with a directory node was built
C7_Witness ==
  /\ treePc = "returned"
  /\ \E f \in notes : Len(f.path) = 2 /\ ~Excluded(f.path[1]) /\ Excluded(f.path[2])
  /\ \E f \in notes : Len(f.path) = 2 /\ Excluded(f.path[1]) /\ ~Excluded(f.path[2])
  /\ \E n \in TreeNodes : n.node.IsDir

\* C8: no node of the navigation tree has a name beginning with '_'.
C8_NoUnderscoreNodes ==
  treePc = "returned" =>
    \A n \in TreeNodes : ~HasPrefix(n.node.Name, <<"_">>)

(* ------------------------ properties of the build ----------------------- *)
\* the markdown files of content/ the posts are written in
PostSources == {f \in contentDir : HasSuffix(Base(f.path), DotMd) /\ Base(f.path) # NameIndexMd}

\* C1: every markdown file of content/ other than _index.md gives one post
\* record, and the post is in the Posts list handed to index.html.
C1_PostsOnHomepage ==
  pc = "done" =>
    /\ Len(indexPosts) = Cardinality(PostSources)
    /\ \A f \in PostSources :
         \E i \in 1..Len(indexPosts) : indexPosts[i].Slug = TrimSuffix(Base(f.path), DotMd)

\* the notes of the input and the url the build computes for a note
NoteSources == {f \in notes : IsNote(f.path)}
UrlOf(f) == cfgBaseURL \o NotesSlash \o TrimSuffix(RelPath(f.path), DotMd)

\* the urls held by the navigation tree, the tag index, search.json and the
\* sitemap note list
TreeURLs == {n.node.URL : n \in {x \in TreeNodes : ~x.node.IsDir}}
TagURLs == UNION {{tagsMap[k][i].URL : i \in 1..Len(tagsMap[k])} : k \in DOMAIN tagsMap}
SearchURLs == {allSearchItems[i].url : i \in 1..Len(allSearchItems)}
SitemapURLs == {allNotes[i].URL : i \in 1..Len(allNotes)}
PageURLs == {p.URL : p \in pagePosts}

\* C2: a note whose frontmatter fails to parse has, after the build, no entry
\* in the navigation tree, in a tag page, in search.json or in the sitemap
\* note list.
C2_UnparsedNoteExcluded ==
  pc = "done" =>
    \A f \in NoteSources :
      parseFrontmatter(f.data).err =>
        UrlOf(f) \notin (TreeURLs \cup TagURLs \cup SearchURLs \cup SitemapURLs)

\* the outputs main writes after the walk over the notes
LaterKinds ==
  {"index.html", "notes.html", "tag", "search.json", "sitemap.xml", "robots.txt",
   "rss.xml", "404.html", "_redirects", "static", "assets"}

\* C3: once os.Create or ExecuteTemplate has failed in the loop over the
\* notes, no later output is written and the build does not complete.
C3_NoteFailureAbortsBuild ==
  noteErr # "none" =>
    /\ pc # "done"
    /\ \A o \in public : o.kind \notin LaterKinds

\* every url the build has computed for a note
AllNoteURLs == PageURLs \cup TreeURLs \cup TagURLs \cup SearchURLs \cup SitemapURLs

\* C4 as stated: every url computed for a note starts with the configured
\* base URL and does not end with '.md'.
C4_UrlNeverEndsInMd ==
  \A u \in AllNoteURLs : HasPrefix(u, cfgBaseURL) /\ ~HasSuffix(u, DotMd)

\* the relative path of a markdown file without its last three characters
Stem(f) == SubSeq(RelPath(f.path), 1, Len(RelPath(f.path)) - 3)

\* C4 amended: every url computed for a note is the configured base URL,
\* "notes/" and the relative path with one trailing '.md' removed; it ends
\* with '.md' exactly when the file name ends with '.md.md'.
C4_UrlIsBasePlusStem ==
  \A u \in AllNoteURLs :
    /\ HasPrefix(u, cfgBaseURL)
    /\ \E f \in notes :
         /\ HasSuffix(Base(f.path), DotMd)
         /\ u = cfgBaseURL \o NotesSlash \o Stem(f)
         /\ HasSuffix(u, DotMd) <=> HasSuffix(Base(f.path), DotMd \o DotMd)

\* a build with a base URL other than "/" has finished with a note named
\* *.md.md and a note in a subdirectory, both in the tree, search.json and
\* the sitemap
C4_Witness ==
  /\ pc = "done"
  /\ cfgBaseURL = <<"/", "b", "/">>
  /\ \E u \in TreeURLs \cap SearchURLs \cap SitemapURLs \cap PageURLs : HasSuffix(u, DotMd)
  /\ \E u \in TreeURLs \cap SearchURLs \cap SitemapURLs \cap TagURLs :
       ~HasSuffix(u, DotMd) /\ Index(u, NameDocs \o <<"/">>) > 0

\* how often the tag index lists the url u under the key k
TimesListed(k, u) ==
  IF k \in DOMAIN tagsMap
  THEN Cardinality({i \in 1..Len(tagsMap[k]) : tagsMap[k][i].URL = u})
  ELSE 0

\* the lower-cased forms of the parsed tags of a note
TagKeysOf(f) ==
  LET tags == ParseTags(MetaGet(parseFrontmatter(f.data).meta, KeyTags))
  IN {ToLower(tags[i]) : i \in 1..Len(tags)}

\* C5: the tag index lists a note under k exactly once if k is the
\* lower-cased form of one of its parsed tags, and not at all otherwise.
C5_IndexedOncePerKey ==
  pc = "done" =>
    \A f \in NoteSources :
      \A k \in (DOMAIN tagsMap) \cup TagKeysOf(f) :
        TimesListed(k, UrlOf(f)) = IF k \in TagKeysOf(f) THEN 1 ELSE 0

\* a stable sort by date, newest first: x goes behind the dates not older than it
RECURSIVE InsertByDate(_, _)
InsertByDate(sorted, x) ==
  IF sorted = <<>> THEN <<x>>
  ELSE IF After(x, Head(sorted)) THEN <<x>> \o sorted
  ELSE <<Head(sorted)>> \o InsertByDate(Tail(sorted), x)

RECURSIVE StableByDate(_)
StableByDate(ds) ==
  IF ds = <<>> THEN <<>>
  ELSE InsertByDate(StableByDate(SubSeq(ds, 1, Len(ds) - 1)), ds[Len(ds)])

\* the dates of the posts of content/ in the order the directory lists them
PostDates ==
  LET ps == WalkDir(PostSources, <<>>)
  IN [i \in 1..Len(ps) |->
        ParseDate(MetaGet(parseFrontmatter(ReadFile(contentDir, ps[i])).meta, KeyDate)).t]

\* C6: the homepage lists the posts by date, newest first, posts of equal
\* date (the zero date included) in encounter order and zero dates last.
C6_HomepageStableByDate ==
  pc = "done" =>
    [i \in 1..Len(indexPosts) |-> indexPosts[i].Date] = StableByDate(PostDates)

\* search.json has just been written from allSearchItems, which no later
\* statement changes
SearchJsonWritten == Out("search.json", <<>>) \in public /\ pc = "sitemap"

\* the records of search.json for the note f
RecordsOf(f) ==
  {i \in 1..Len(allSearchItems) :
     allSearchItems[i].url = UrlOf(f) /\ allSearchItems[i].type = "note"}

\* search.json holds one record for every note, of type "note", and no other
OneRecordPerNote ==
  /\ Len(allSearchItems) = Cardinality(NoteSources)
  /\ \A f \in NoteSources : Cardinality(RecordsOf(f)) = 1

\* the value of the date key in the frontmatter of f, empty if there is none
DateOf(f) == MetaGet(parseFrontmatter(f.data).meta, KeyDate)

\* C14 as stated: search.json holds exactly one record per note, of type
\* "note", and the date of a record is the 'Jan 02, 2006' form of a date that
\* parses as YYYY-MM-DD, or empty when the date is absent or does not parse.
C14_DateFormattedOrEmpty ==
  SearchJsonWritten =>
    /\ OneRecordPerNote
    /\ \A f \in NoteSources :
         LET t == ParseDate(DateOf(f))
         IN \A i \in RecordsOf(f) :
              allSearchItems[i].date = IF t.ok THEN FormatDate(t.t) ELSE <<>>

\* C14 amended: search.json holds exactly one record per note, of type
\* "note"; the date of a record is the 'Jan 02, 2006' form of a date that
\* parses as YYYY-MM-DD, the date string as written when it does not parse,
\* and empty when the note has no date.
C14_DateFormattedOrAsWritten ==
  SearchJsonWritten =>
    /\ OneRecordPerNote
    /\ \A f \in NoteSources :
         LET d == DateOf(f)
             t == ParseDate(d)
         IN \A i \in RecordsOf(f) :
              allSearchItems[i].date =
                IF d = <<>> THEN <<>> ELSE IF t.ok THEN FormatDate(t.t) ELSE d

\* search.json has been written with a record dated "Mar 01, 2024" and a
\* record whose date is the unparsable "soon" of its note
C14_Witness ==
  /\ SearchJsonWritten
  /\ \E i, j \in 1..Len(allSearchItems) :
       /\ allSearchItems[i].date =
            <<"M", "a", "r", " ", "0", "1", ",", " ", "2", "0", "2", "4">>
       /\ allSearchItems[j].date = <<"s", "o", "o", "n">>
       /\ \E f \in NoteSources : j \in RecordsOf(f) /\ DateOf(f) = <<"s", "o", "o", "n">>

\* the files of public/ that an earlier build left
Stale == {o \in public : o.kind = "stale"}

\* C15: no output file is written before public/ has been deleted and
\* recreated, and whenever a build has stopped, complete or on a fatal error,
\* public/ holds no file left from an earlier build.
C15_StoppedBuildHasNoStaleFile ==
  /\ public # Stale => pc \notin {"config", "tree", "clean"}
  /\ pc \in {"done", "fatal"} => Stale = {}

\* the markdown files under notes/
MarkdownFiles == {f \in notes : HasSuffix(Base(f.path), DotMd)}

\* the file has a name starting with '.', or lies under a directory named
\* images or a directory whose name starts with '.'
TreeHidden(f) ==
  \/ HasPrefix(Base(f.path), <<".">>)
  \/ \E i \in 1..(Len(f.path) - 1) :
       f.path[i] = NameImages \/ HasPrefix(f.path[i], <<".">>)

\* the page public/notes/<relpath>/index.html of a file
PageOf(f) == Out("page", TrimSuffix(RelPath(f.path), DotMd))

\* the walk over the notes has processed f without an error
Processed(f) == ~parseFrontmatter(f.data).err /\ noteErr = "none"

\* C16: after a build, a processed note that the tree builder leaves out for
\* its dot name or for lying under images or a dot directory has no node in
\* the navigation tree but has its page, a search.json record and a sitemap
\* entry; of the markdown files only those named _index.md have neither page
\* nor record nor entry.
C16_TreeHiddenNotesStillPublished ==
  pc = "done" =>
    \A f \in MarkdownFiles :
      IF Base(f.path) = NameIndexMd
      THEN /\ PageOf(f) \notin public
           /\ UrlOf(f) \notin SearchURLs \cup SitemapURLs \cup TreeURLs
      ELSE /\ UrlOf(f) \in SearchURLs \cap SitemapURLs
           /\ Processed(f) => PageOf(f) \in public
           /\ TreeHidden(f) => UrlOf(f) \notin TreeURLs

\* a build has finished with notes/.h.md and notes/images/c.md, or with
\* notes/.git/a.md and notes/_index.md: the hidden notes have their page,
\* record and entry and no node, _index.md has none of them
C16_Witness ==
  /\ pc = "done"
  /\ noteErr = "none"
  /\ \/ \E f, g \in MarkdownFiles :
          /\ f.path = <<NameDotH>>
          /\ g.path = <<NameImages, NameC>>
          /\ {PageOf(f), PageOf(g)} \subseteq public
          /\ {UrlOf(f), UrlOf(g)} \subseteq SearchURLs \cap SitemapURLs
          /\ TreeURLs = {}
     \/ \E f, g \in MarkdownFiles :
          /\ f.path = <<NameGit, NameA>>
          /\ g.path = <<NameIndexMd>>
          /\ PageOf(f) \in public
          /\ UrlOf(f) \in SearchURLs \cap SitemapURLs
          /\ UrlOf(g) \notin SearchURLs \cup SitemapURLs
          /\ PageOf(g) \notin public
          /\ TreeURLs = {}

====
